---- MODULE Spec2Model ----
(***************************************************************************)
(* Kulan: a secure group-messaging protocol (examples/kulan.py) over the   *)
(* elliptic-curve wrapper petlib/ec.py.                                    *)
(*                                                                         *)
(* The group is a real short-Weierstrass curve, scaled down from the       *)
(* NIST curve the program selects to y^2 = x^3 + x + 6 over GF(11), whose  *)
(* 13 points form a group of prime order generated by (2, 7).  Byte        *)
(* strings are sequences of naturals.  The hash, the AEAD cipher and the   *)
(* signature are ideal primitives: a digest determines its input, a tag    *)
(* verifies only for the key, IV and ciphertext it was made for, and a     *)
(* signature verifies only for the key and digest it was made for.         *)
(***************************************************************************)
EXTENDS Integers, Sequences, FiniteSets, TLC

VARIABLES
    name,          \* client -> self.name
    priv,          \* client -> self.priv
    pub,           \* client -> self.pub
    pki,           \* client -> self.pki, a mapping name -> directory entry
    Ks,            \* client -> self.Ks, the channel key list
    priv_sign,     \* client -> self.priv_sign
    pub_sign,      \* client -> self.pub_sign
    current_dict,  \* client -> self.current_dict, a mapping name -> point
    priv_enc,      \* client -> self.priv_enc
    pub_enc,       \* client -> self.pub_enc
    wire,          \* the message most recently produced by an encrypt call
    last,          \* the most recent call: operation, client, input, outcome
    dh,            \* the test harness of the key derivations (test_2DH,
                   \* test_3DH) and of the curve (test_ec_io,
                   \* test_ec_arithmetic)
    introduced     \* client -> the results its successful broadcast_decrypt
                   \* calls have returned to its caller so far

vars == <<name, priv, pub, pki, Ks, priv_sign, pub_sign, current_dict,
          priv_enc, pub_enc, wire, last, dh, introduced>>

clientVars == <<name, priv, pub, pki, Ks, priv_sign, pub_sign, current_dict,
                priv_enc, pub_enc>>

(***************************************************************************)
(* Bounds of the model.                                                    *)
(***************************************************************************)
\* scalars of the key-derivation tests are drawn from 1..MaxDH
MaxDH == 12
\* scalars of the curve tests are drawn from 0..MaxEC
MaxEC == 12
\* long-term private scalars of clients are drawn from 1..MaxPriv
MaxPriv == 2
\* ephemeral scalars (order.random()) are drawn from 1..MaxEph
MaxEph == 2
\* channel keys are the one-byte strings <<1>> .. <<MaxChanKey>>
MaxChanKey == 2
\* a channel key list holds at most MaxKs keys
MaxKs == 2
\* fresh IVs (urandom) are the one-byte strings <<1>> .. <<MaxIv>>
MaxIv == 1
\* fresh message keys (urandom) are the one-byte strings <<1>> .. <<MaxSymKey>>
MaxSymKey == 1
\* plaintexts are the strings of at most MaxPlainLen bytes PlainByte
MaxPlainLen == 1

(***************************************************************************)
(* EcGroup: the curve, its generator and its order.                        *)
(***************************************************************************)
\* the prime of the field the curve is defined over
FieldP == 11
\* the coefficients of y^2 = x^3 + CurveA*x + CurveB
CurveA == 1
CurveB == 6
\* the affine coordinates of the generator
GenX == 2
GenY == 7
\* the order of the group (EcGroup.order)
order == 13

\* an affine point, or the point at infinity (coordinates unused)
Pt(x, y) == [inf |-> FALSE, x |-> x, y |-> y]

\* EcGroup.infinite
infinite == [inf |-> TRUE, x |-> 0, y |-> 0]

\* EcGroup.generator
generator == Pt(GenX, GenY)

\* the inverse of a nonzero field element
FieldInv(a) == CHOOSE b \in 1..(FieldP - 1) : (a * b) % FieldP = 1

\* EcGroup.check_point: the point satisfies the curve equation
check_point(P) ==
    \/ P.inf
    \/ (P.y * P.y) % FieldP = (P.x * P.x * P.x + CurveA * P.x + CurveB) % FieldP

\* EcPt.__neg__
neg(P) == IF P.inf THEN P ELSE Pt(P.x, (FieldP - P.y) % FieldP)

\* EcPt.double
double(P) ==
    IF P.inf \/ P.y = 0 THEN infinite
    ELSE LET l == ((3 * P.x * P.x + CurveA) * FieldInv((2 * P.y) % FieldP)) % FieldP
             x3 == (l * l + 2 * (FieldP - P.x)) % FieldP
             y3 == (l * (P.x + FieldP - x3) + (FieldP - P.y)) % FieldP
         IN Pt(x3, y3)

\* EcPt.__add__
add(P, Q) ==
    IF P.inf THEN Q
    ELSE IF Q.inf THEN P
    ELSE IF P.x = Q.x /\ P.y = Q.y THEN double(P)
    ELSE IF P.x = Q.x THEN infinite
    ELSE LET l == ((Q.y + FieldP - P.y) * FieldInv((Q.x + FieldP - P.x) % FieldP)) % FieldP
             x3 == (l * l + (FieldP - P.x) + (FieldP - Q.x)) % FieldP
             y3 == (l * (P.x + FieldP - x3) + (FieldP - P.y)) % FieldP
         IN Pt(x3, y3)

\* scalar multiplication by double-and-add (EC_POINT_mul)
RECURSIVE point_mul(_, _)
point_mul(k, P) ==
    IF k = 0 THEN infinite
    ELSE LET h == double(point_mul(k \div 2, P))
         IN IF k % 2 = 1 THEN add(h, P) ELSE h

\* every point of the group: the multiples of the generator
GroupPoints == { point_mul(k, generator) : k \in 0..(order - 1) }

\* the multiplication table of the group, computed once
MulTable == [k \in 0..(order - 1), P \in GroupPoints |-> point_mul(k, P)]

\* EcPt.__rmul__: other * self, the scalar reduced modulo the group order
rmul(other, P) == MulTable[other % order, P]

\* EcPt.__eq__ (EC_POINT_cmp)
pt_eq(P, Q) == IF P.inf \/ Q.inf THEN P.inf = Q.inf ELSE P.x = Q.x /\ P.y = Q.y

\* mutant: the compressed form without the parity of y
export_no_parity(P) == IF P.inf THEN <<0>> ELSE <<2, P.x>>

\* EcPt.export: the compressed form, one byte 0 for the point at infinity,
\* otherwise the byte 2 + (parity of y) followed by x
export(P) == IF P.inf THEN <<0>> ELSE <<2 + (P.y % 2), P.x>>

\* the square roots of a field element
FieldRoots(z) == { y \in 0..(FieldP - 1) : (y * y) % FieldP = z }

\* EcPt.from_binary: decodes a compressed point; ok is FALSE where the
\* assertion on EC_POINT_oct2point fails
from_binary(sbin) ==
    IF sbin = <<0>> THEN [ok |-> TRUE, pt |-> infinite]
    ELSE IF Len(sbin) # 2 \/ sbin[1] \notin {2, 3} \/ sbin[2] \notin 0..(FieldP - 1)
        THEN [ok |-> FALSE, pt |-> infinite]
    ELSE LET x == sbin[2]
             z == (x * x * x + CurveA * x + CurveB) % FieldP
             ys == { y \in FieldRoots(z) : y % 2 = sbin[1] - 2 }
         IN IF ys = {} THEN [ok |-> FALSE, pt |-> infinite]
            ELSE [ok |-> TRUE, pt |-> Pt(x, CHOOSE y \in ys : TRUE)]

(***************************************************************************)
(* Byte strings and the hash.                                              *)
(***************************************************************************)
\* the concatenation of a sequence of byte strings
RECURSIVE Concat(_)
Concat(ss) == IF ss = <<>> THEN <<>> ELSE Head(ss) \o Concat(Tail(ss))

\* hashlib.sha1 over the bytes fed to it: an ideal hash, whose digest
\* determines the input (the input behind a length byte)
sha1(data) == <<Len(data)>> \o data

\* the number of leading digest bytes used as a symmetric key (K[:16])
KeyBytes == 16

\* K[:16]
Trunc16(K) == SubSeq(K, 1, IF Len(K) < KeyBytes THEN Len(K) ELSE KeyBytes)

(***************************************************************************)
(* KeyAgreement: the hashed terms of each derivation, in the order they    *)
(* are fed to the hash, and the derivations.                               *)
(***************************************************************************)
terms_2DH_sender(priv0, pub1, pub2) ==
    << export(rmul(priv0, pub1)), export(rmul(priv0, pub2)) >>

derive_2DH_sender(priv0, pub1, pub2) ==
    sha1(Concat(terms_2DH_sender(priv0, pub1, pub2)))

\* mutant: the receiver hashes its two products in the other order
terms_2DH_receiver_swapped(pub0, priv1, priv2) ==
    << export(rmul(priv2, pub0)), export(rmul(priv1, pub0)) >>

terms_2DH_receiver(pub0, priv1, priv2) ==
    << export(rmul(priv1, pub0)), export(rmul(priv2, pub0)) >>

derive_2DH_receiver(pub0, priv1, priv2) ==
    sha1(Concat(terms_2DH_receiver(pub0, priv1, priv2)))

terms_3DH_sender(priv1, priv2, pub1, pub2) ==
    << export(rmul(priv1, pub2)), export(rmul(priv2, pub1)),
       export(rmul(priv2, pub2)) >>

derive_3DH_sender(priv1, priv2, pub1, pub2) ==
    sha1(Concat(terms_3DH_sender(priv1, priv2, pub1, pub2)))

\* mutant: the receiver hashes its products in the order of the sender's
\* code, priv1 * pub2 first
terms_3DH_receiver_swapped(pub1, pub2, priv1, priv2) ==
    << export(rmul(priv1, pub2)), export(rmul(priv2, pub1)),
       export(rmul(priv2, pub2)) >>

terms_3DH_receiver(pub1, pub2, priv1, priv2) ==
    << export(rmul(priv2, pub1)), export(rmul(priv1, pub2)),
       export(rmul(priv2, pub2)) >>

derive_3DH_receiver(pub1, pub2, priv1, priv2) ==
    sha1(Concat(terms_3DH_receiver(pub1, pub2, priv1, priv2)))

(***************************************************************************)
(* The key-derivation tests: four fresh key pairs, then one derivation by  *)
(* each role.                                                              *)
(***************************************************************************)
\* pair(G): a private scalar and its public point
pair(x) == [x |-> x, gx |-> rmul(x, generator)]

NoClients == << >>

NoMessage == [kind |-> "none"]

NoCall == [op |-> "none"]

\* the private scalars of the tests, within [1, order-1]
DHScalars == 1..(IF MaxDH < order THEN MaxDH ELSE order - 1)

DHInit ==
    /\ \E a \in DHScalars, b \in DHScalars, p \in DHScalars, q \in DHScalars :
          dh = [test |-> "start", p1 |-> pair(a), p2 |-> pair(b),
                p3 |-> pair(p), p4 |-> pair(q),
                t1 |-> <<>>, t2 |-> <<>>, k1 |-> <<>>, k2 |-> <<>>]
    /\ name = NoClients /\ priv = NoClients /\ pub = NoClients
    /\ pki = NoClients /\ Ks = NoClients
    /\ priv_sign = NoClients /\ pub_sign = NoClients
    /\ current_dict = NoClients
    /\ priv_enc = NoClients /\ pub_enc = NoClients
    /\ wire = NoMessage
    /\ last = NoCall
    /\ introduced = NoClients

\* test_2DH: priv1 is the sender, (priv2, priv3) the receiver
test_2DH ==
    /\ dh.test = "start"
    /\ dh' = [dh EXCEPT
                !.test = "2DH",
                !.t1 = terms_2DH_sender(dh.p1.x, dh.p3.gx, dh.p4.gx),
                !.t2 = terms_2DH_receiver(dh.p1.gx, dh.p3.x, dh.p4.x),
                !.k1 = derive_2DH_sender(dh.p1.x, dh.p3.gx, dh.p4.gx),
                !.k2 = derive_2DH_receiver(dh.p1.gx, dh.p3.x, dh.p4.x)]
    /\ UNCHANGED <<clientVars, wire, last, introduced>>

\* test_3DH: (priv1, priv2) is the sender, (priv3, priv4) the receiver
test_3DH ==
    /\ dh.test = "start"
    /\ dh' = [dh EXCEPT
                !.test = "3DH",
                !.t1 = terms_3DH_sender(dh.p1.x, dh.p2.x, dh.p3.gx, dh.p4.gx),
                !.t2 = terms_3DH_receiver(dh.p1.gx, dh.p2.gx, dh.p3.x, dh.p4.x),
                !.k1 = derive_3DH_sender(dh.p1.x, dh.p2.x, dh.p3.gx, dh.p4.gx),
                !.k2 = derive_3DH_receiver(dh.p1.gx, dh.p2.gx, dh.p3.x, dh.p4.x)]
    /\ UNCHANGED <<clientVars, wire, last, introduced>>

DHNext == test_2DH \/ test_3DH

SpecDH == DHInit /\ [][DHNext]_vars

(***************************************************************************)
(* The curve tests: two points of the group, Bn(k) * g and Bn(j) * g, then *)
(* the export of the first and its decoding, or the sum, the double and    *)
(* the negation.                                                           *)
(***************************************************************************)
ECScalars == 0..MaxEC

ECInit ==
    /\ \E k \in ECScalars, j \in ECScalars :
          dh = [test |-> "ec_start",
                P |-> rmul(k, generator), Q |-> rmul(j, generator),
                k |-> k, j |-> j,
                bin |-> <<>>, back |-> [ok |-> FALSE, pt |-> infinite],
                sum |-> infinite, twice |-> infinite, minus |-> infinite]
    /\ name = NoClients /\ priv = NoClients /\ pub = NoClients
    /\ pki = NoClients /\ Ks = NoClients
    /\ priv_sign = NoClients /\ pub_sign = NoClients
    /\ current_dict = NoClients
    /\ priv_enc = NoClients /\ pub_enc = NoClients
    /\ wire = NoMessage
    /\ last = NoCall
    /\ introduced = NoClients

\* test_ec_io: EcPt.from_binary(P.export(), G)
test_ec_io ==
    /\ dh.test = "ec_start"
    /\ dh' = [dh EXCEPT !.test = "ec_io",
                        !.bin = export(dh.P),
                        !.back = from_binary(export(dh.P))]
    /\ UNCHANGED <<clientVars, wire, last, introduced>>

\* test_ec_arithmetic: P + Q, P.double() and -P
test_ec_arithmetic ==
    /\ dh.test = "ec_start"
    /\ dh' = [dh EXCEPT !.test = "ec_arithmetic",
                        !.sum = add(dh.P, dh.Q),
                        !.twice = double(dh.P),
                        !.minus = neg(dh.P)]
    /\ UNCHANGED <<clientVars, wire, last, introduced>>

ECNext == test_ec_io \/ test_ec_arithmetic

SpecEC == ECInit /\ [][ECNext]_vars

(***************************************************************************)
(* Structured encoding of an inner message: each field behind its length.  *)
(***************************************************************************)
\* CryptoEnc().encode of a list of byte-string fields
RECURSIVE encode(_)
encode(fields) ==
    IF fields = <<>> THEN <<>>
    ELSE <<Len(Head(fields))>> \o Head(fields) \o encode(Tail(fields))

\* CryptoDec().decode of a byte string: the fields, or ok = FALSE where the
\* input is malformed
RECURSIVE decode(_)
decode(data) ==
    IF data = <<>> THEN [ok |-> TRUE, fields |-> <<>>]
    ELSE IF Len(data) < 1 + data[1] THEN [ok |-> FALSE, fields |-> <<>>]
    ELSE LET rest == decode(SubSeq(data, 2 + data[1], Len(data)))
         IN [ok |-> rest.ok,
             fields |-> <<SubSeq(data, 2, 1 + data[1])>> \o rest.fields]

(***************************************************************************)
(* Cipher("aes-128-gcm"): a ciphertext is the plaintext under a key and an *)
(* IV; a tag authenticates a key, an IV and a ciphertext (e is the error   *)
(* a tampering added to it, 0 in a tag the cipher made).                   *)
(***************************************************************************)
gcm_tag(key, iv, cip) == [k |-> key, iv |-> iv, c |-> cip, e |-> 0]

\* aes.quick_gcm_enc(key, iv, plaintext) -> (ciphertext, tag)
quick_gcm_enc(key, iv, plaintext) ==
    LET cip == [k |-> key, iv |-> iv, p |-> plaintext]
    IN [c |-> cip, t |-> gcm_tag(key, iv, cip)]

\* aes.quick_gcm_dec(key, iv, ciphertext, tag) -> plaintext, or None
\* (ok = FALSE) where the tag does not verify
quick_gcm_dec(key, iv, cip, tag) ==
    IF tag = gcm_tag(key, iv, cip) /\ cip.k = key /\ cip.iv = iv
    THEN [ok |-> TRUE, plain |-> cip.p]
    ELSE [ok |-> FALSE, plain |-> <<>>]

\* the truth value Python gives a decryption result: None and the empty
\* string are false
truthy(res) == res.ok /\ res.plain # <<>>

(***************************************************************************)
(* ECDSA: a signature names the signing key and the digest it was made for *)
(***************************************************************************)
\* do_ecdsa_sign(G, priv, md) -> (r, s)
do_ecdsa_sign(sk, md) == [r |-> export(rmul(sk, generator)), s |-> md]

\* do_ecdsa_verify(G, pub, (r, s), md)
do_ecdsa_verify(pk, sig, md) == sig.r = export(pk) /\ sig.s = md

(***************************************************************************)
(* Names, keys and the other inputs of the clients.                        *)
(***************************************************************************)
\* the name the signer directory is created with: "me"
Me == <<109, 101>>
\* the name "a"
A == <<97>>

Names == {Me, A}

PrivScalars == 1..(IF MaxPriv < order THEN MaxPriv ELSE order - 1)

EphScalars == 1..(IF MaxEph < order THEN MaxEph ELSE order - 1)

ChannelKeys == { <<k>> : k \in 1..MaxChanKey }

Ivs == { <<i>> : i \in 1..MaxIv }

SymKeys == { <<k>> : k \in 1..MaxSymKey }

\* the byte plaintexts are made of: "H"
PlainByte == 72

Plaintexts == { [i \in 1..n |-> PlainByte] : n \in 0..MaxPlainLen }

\* a directory entry: a pair of points (pub1, pub2), or a single point
PairEntry(P1, P2) == [pair |-> TRUE, pub1 |-> P1, pub2 |-> P2]

PointEntry(P) == [pair |-> FALSE, pub1 |-> P, pub2 |-> infinite]

\* the mapping with the single key k
Single(k, v) == [x \in {k} |-> v]

\* mutant: the first key of the list is used
FirstKey(c) == Ks[c][1]

\* Ks[-1]
LastKey(c) == Ks[c][Len(Ks[c])]

Clients == DOMAIN name

(***************************************************************************)
(* KulanClient.__init__                                                    *)
(***************************************************************************)
\* the fields of a client constructed as KulanClient(G, nm, x, dir), with
\* the two ephemeral scalars order.random() returned
KulanClient(nm, x, dir, rs, re) ==
    [name |-> nm, priv |-> x, pub |-> rmul(x, generator), pki |-> dir,
     Ks |-> <<>>,
     priv_sign |-> rs, pub_sign |-> rmul(rs, generator),
     current_dict |-> Single(Me, rmul(rs, generator)),
     priv_enc |-> re, pub_enc |-> rmul(re, generator)]

\* the clients cs, a sequence of constructed clients, as the state
Constructed(cs) ==
    /\ name = [c \in DOMAIN cs |-> cs[c].name]
    /\ priv = [c \in DOMAIN cs |-> cs[c].priv]
    /\ pub = [c \in DOMAIN cs |-> cs[c].pub]
    /\ pki = [c \in DOMAIN cs |-> cs[c].pki]
    /\ Ks = [c \in DOMAIN cs |-> cs[c].Ks]
    /\ priv_sign = [c \in DOMAIN cs |-> cs[c].priv_sign]
    /\ pub_sign = [c \in DOMAIN cs |-> cs[c].pub_sign]
    /\ current_dict = [c \in DOMAIN cs |-> cs[c].current_dict]
    /\ priv_enc = [c \in DOMAIN cs |-> cs[c].priv_enc]
    /\ pub_enc = [c \in DOMAIN cs |-> cs[c].pub_enc]

(***************************************************************************)
(* The steady channel.                                                     *)
(***************************************************************************)
\* the outcome of a call: what it returned or raised.  status is "return"
\* (a value was returned), "None" (None was returned) or the exception
\* raised: "AssertionError" (an assert failed), "TypeError" (decode was
\* handed None, or a single point was unpacked as a pair), "DecodeError"
\* (decode was handed malformed bytes), "ValueError" (the decoded list has
\* the wrong number of fields), "KeyError" (a name is in no mapping),
\* "Exception" (raise Exception("No decryption")).  name, plain and key
\* hold the returned tuple.
Outcome(status, nm, plain, key) ==
    [status |-> status, name |-> nm, plain |-> plain, key |-> key]

Raised(exc) == Outcome(exc, <<>>, <<>>, infinite)

\* mutant: the digest leaves the channel key out
binding_digest_unkeyed(K, plaintext) == sha1(plaintext)

\* the digest that binds a signature to the channel key:
\* sha1(self.Ks[-1] + plaintext)
binding_digest(K, plaintext) == sha1(K \o plaintext)

\* the message steady_encrypt builds for the name nm with the signing
\* scalar sk: signed over the digest binding Ksign, encrypted under Kenc
steady_message(nm, sk, Ksign, Kenc, plaintext, iv) ==
    LET md == binding_digest(Ksign, plaintext)
        sig == do_ecdsa_sign(sk, md)
        plain_inner == encode(<<nm, plaintext, sig.r, sig.s>>)
        ct == quick_gcm_enc(Kenc, iv, plain_inner)
    IN [kind |-> "steady", iv |-> iv, c |-> ct.c, t |-> ct.t]

\* mutant: the ciphertext is decrypted without its tag being checked
steady_open_unchecked(c, msg) == [ok |-> TRUE, plain |-> msg.c.p]

\* decrypt and check integrity, under the last channel key
steady_open(c, msg) == quick_gcm_dec(LastKey(c), msg.iv, msg.c, msg.t)

\* mutant: the result of the signature check is ignored
signature_ok_always(c, xname, sig, md) == TRUE

\* the signature check against the signing key current_dict holds for xname
signature_ok(c, xname, sig, md) ==
    do_ecdsa_verify(current_dict[c][xname], sig, md)

\* mutant: the precondition is not asserted
has_channel_key_unchecked(c) == TRUE

\* assert len(self.Ks) > 0, the first statement of both steady operations
has_channel_key(c) == Len(Ks[c]) > 0

\* the outcome of steady_decrypt by client c on the message msg; were the
\* assertion passed with an empty list, self.Ks[-1] would raise IndexError
steady_decrypt_outcome(c, msg) ==
    IF ~has_channel_key(c) THEN Raised("AssertionError")
    ELSE IF Len(Ks[c]) = 0 THEN Raised("IndexError")
    ELSE
    LET plaintext == steady_open(c, msg)
        inner == decode(plaintext.plain)
    IN  IF ~plaintext.ok THEN Raised("TypeError")
        ELSE IF ~inner.ok THEN Raised("DecodeError")
        ELSE IF Len(inner.fields) # 4 THEN Raised("ValueError")
        ELSE
        LET xname == inner.fields[1]
            xplain == inner.fields[2]
            sig == [r |-> inner.fields[3], s |-> inner.fields[4]]
            md == binding_digest(LastKey(c), xplain)
        IN  IF xname \notin DOMAIN current_dict[c] THEN Raised("KeyError")
            ELSE IF ~signature_ok(c, xname, sig, md)
                THEN Outcome("None", <<>>, <<>>, infinite)
            ELSE Outcome("return", xname, xplain, infinite)

\* client.Ks += [key]: the channel key established outside this core, a
\* fresh one (urandom(16)) that the list does not hold yet
add_key(c, key) ==
    /\ Len(Ks[c]) < MaxKs
    /\ \A i \in DOMAIN Ks[c] : Ks[c][i] # key
    /\ Ks' = [Ks EXCEPT ![c] = Append(@, key)]
    /\ last' = [op |-> "add_key", client |-> c, input |-> NoMessage,
                out |-> Raised("none")]
    /\ UNCHANGED <<name, priv, pub, pki, priv_sign, pub_sign, current_dict,
                   priv_enc, pub_enc, wire, dh, introduced>>

\* mutant: the key a message was sent under is dropped from the list
steady_encrypt_consuming(c, plaintext, iv) ==
    /\ Len(Ks[c]) > 0
    /\ wire' = steady_message(name[c], priv_sign[c], LastKey(c), LastKey(c),
                              plaintext, iv)
    /\ last' = [op |-> "steady_encrypt", client |-> c, input |-> NoMessage,
                out |-> Outcome("return", <<>>, plaintext, infinite)]
    /\ Ks' = [Ks EXCEPT ![c] = SubSeq(@, 1, Len(@) - 1)]
    /\ UNCHANGED <<name, priv, pub, pki, priv_sign, pub_sign, current_dict,
                   priv_enc, pub_enc, dh, introduced>>

\* KulanClient.steady_encrypt(plaintext), iv the bytes urandom returns
steady_encrypt(c, plaintext, iv) ==
    /\ IF ~has_channel_key(c) \/ Len(Ks[c]) = 0
       THEN /\ wire' = wire
            /\ last' = [op |-> "steady_encrypt", client |-> c,
                        input |-> NoMessage,
                        out |-> IF ~has_channel_key(c)
                                THEN Raised("AssertionError")
                                ELSE Raised("IndexError")]
       ELSE /\ wire' = steady_message(name[c], priv_sign[c], LastKey(c),
                                      LastKey(c), plaintext, iv)
            /\ last' = [op |-> "steady_encrypt", client |-> c,
                        input |-> NoMessage,
                        out |-> Outcome("return", <<>>, plaintext, infinite)]
    /\ UNCHANGED <<clientVars, dh, introduced>>

\* KulanClient.steady_decrypt(ciphertext)
steady_decrypt(c, msg) ==
    /\ msg.kind = "steady"
    /\ last' = [op |-> "steady_decrypt", client |-> c, input |-> msg,
                out |-> steady_decrypt_outcome(c, msg)]
    /\ UNCHANGED <<clientVars, wire, dh, introduced>>

(***************************************************************************)
(* The messages a steady_decrypt call may be handed: the one on the wire,  *)
(* the same with its IV, its ciphertext or its tag changed, and messages   *)
(* built by a party that holds the channel key.                            *)
(***************************************************************************)
\* a byte string with its first byte changed (lengthened if empty)
Flip(data) ==
    IF data = <<>> THEN <<1>> ELSE <<(data[1] + 1) % 256>> \o Tail(data)

Tampered(msg) ==
    { [msg EXCEPT !.iv = Flip(@)],
      [msg EXCEPT !.c.p = Flip(@)],
      [msg EXCEPT !.c.iv = Flip(@)],
      [msg EXCEPT !.t.e = 1] }

\* messages signed over one channel key and encrypted, with the IV <<1>>,
\* under the key the receiving client holds; for a client that holds no key
\* yet, messages signed over and encrypted under any one channel key
Crafted(c) ==
    IF Len(Ks[c]) = 0
    THEN { steady_message(nm, sk, K, K, m, <<1>>) :
             nm \in Names, sk \in EphScalars, K \in ChannelKeys,
             m \in Plaintexts }
    ELSE { steady_message(nm, sk, Ksign, LastKey(c), m, <<1>>) :
             nm \in Names, sk \in EphScalars, Ksign \in ChannelKeys,
             m \in Plaintexts }

SteadyInputs(c) ==
    (IF wire.kind = "steady" THEN {wire} \cup Tampered(wire) ELSE {})
    \cup Crafted(c)

\* the registry of long-term keys: for the name "me" the points of the
\* scalar 1, for every other name those of the scalar 2
RegScalar(n) == IF n = Me THEN 1 ELSE 2

RegPoint(n) == rmul(RegScalar(n), generator)

\* one client, as test_steady constructs it: it holds the scalar registered
\* for its name and its directory holds its own name with the pair (pub, pub)
SteadyInit ==
    /\ \E nm \in Names, rs \in EphScalars :
          Constructed(<< KulanClient(nm, RegScalar(nm),
                            Single(nm, PairEntry(RegPoint(nm), RegPoint(nm))),
                            rs, RegScalar(nm)) >>)
    /\ wire = NoMessage
    /\ last = NoCall
    /\ dh = [test |-> "none"]
    /\ introduced = [c \in Clients |-> {}]

AddKey == \E c \in Clients, key \in ChannelKeys : add_key(c, key)

SteadyEncrypt ==
    \E c \in Clients, m \in Plaintexts, iv \in Ivs : steady_encrypt(c, m, iv)

SteadyDecrypt ==
    \E c \in Clients : \E msg \in SteadyInputs(c) : steady_decrypt(c, msg)

SteadyNext == AddKey \/ SteadyEncrypt \/ SteadyDecrypt

SpecSteady == SteadyInit /\ [][SteadyNext]_vars

(***************************************************************************)
(* The introduction (broadcast) layer.                                     *)
(***************************************************************************)
\* the orders in which a dict over the keys S may be iterated
Orders(S) ==
    { o \in [1..Cardinality(S) -> S] : \A k \in S : \E i \in DOMAIN o : o[i] = k }

\* the envelope broadcast_encrypt builds when its directory is iterated in
\* the order ord
broadcast_message(c, sym_key, iv, ord) ==
    LET msg2 == [i \in DOMAIN ord |->
                   LET e == pki[c][ord[i]]
                       K == derive_3DH_sender(priv[c], priv_enc[c], e.pub1, e.pub2)
                   IN quick_gcm_enc(Trunc16(K), iv, sym_key)]
        inner_msg == encode(<<name[c], export(pub_sign[c])>>)
    IN [kind |-> "intro", pub1 |-> export(pub[c]), pub2 |-> export(pub_enc[c]),
        iv |-> iv, list |-> msg2, inner |-> quick_gcm_enc(sym_key, iv, inner_msg)]

\* KulanClient.broadcast_encrypt(plaintext): sym_key and iv are the bytes
\* urandom returns, ord the order self.pki.items() yields.  Unpacking an
\* entry that is a single point as (pub1, pub2) raises TypeError.
broadcast_encrypt(c, sym_key, iv, ord) ==
    /\ IF \E n \in DOMAIN pki[c] : ~pki[c][n].pair
       THEN /\ wire' = wire
            /\ last' = [op |-> "broadcast_encrypt", client |-> c,
                        input |-> NoMessage, out |-> Raised("TypeError")]
       ELSE /\ wire' = broadcast_message(c, sym_key, iv, ord)
            /\ last' = [op |-> "broadcast_encrypt", client |-> c,
                        input |-> NoMessage,
                        out |-> Outcome("return", <<>>, <<>>, infinite)]
    /\ UNCHANGED <<clientVars, dh, introduced>>

\* mutant: the loop gives up at the first entry that fails to decrypt
trial_decrypt_first(K, iv, list, i) ==
    IF i > Len(list) THEN [ok |-> FALSE, plain |-> <<>>, tried |-> Len(list)]
    ELSE LET sym_key == quick_gcm_dec(K, iv, list[i].c, list[i].t)
         IN [ok |-> truthy(sym_key), plain |-> sym_key.plain, tried |-> i]

\* mutant: the loop has no break, a later entry overwrites sym_key
RECURSIVE trial_decrypt_nobreak(_, _, _, _)
trial_decrypt_nobreak(K, iv, list, i) ==
    IF i > Len(list) THEN [ok |-> FALSE, plain |-> <<>>, tried |-> Len(list)]
    ELSE LET sym_key == quick_gcm_dec(K, iv, list[i].c, list[i].t)
         IN IF i = Len(list)
            THEN [ok |-> truthy(sym_key), plain |-> sym_key.plain, tried |-> i]
            ELSE trial_decrypt_nobreak(K, iv, list, i + 1)

\* the loop over msgs[3]: the first entry that decrypts to a true value,
\* with the number of entries tried
RECURSIVE trial_decrypt(_, _, _, _)
trial_decrypt(K, iv, list, i) ==
    IF i > Len(list) THEN [ok |-> FALSE, plain |-> <<>>, tried |-> Len(list)]
    ELSE LET sym_key == quick_gcm_dec(K, iv, list[i].c, list[i].t)
         IN IF truthy(sym_key)
            THEN [ok |-> TRUE, plain |-> sym_key.plain, tried |-> i]
            ELSE trial_decrypt(K, iv, list, i + 1)

\* the trial decryption of broadcast_decrypt by client c on the envelope
\* msgs, whose header points decoded to pub1 and pub2
broadcast_trial(c, msgs, pub1, pub2) ==
    LET K == derive_3DH_receiver(pub1, pub2, priv[c], priv_enc[c])
    IN trial_decrypt(Trunc16(K), msgs.iv, msgs.list, 1)

\* the number of list entries broadcast_decrypt by client c tries on msgs
broadcast_tried(c, msgs) ==
    LET pub1 == from_binary(msgs.pub1)
        pub2 == from_binary(msgs.pub2)
    IN IF ~pub1.ok \/ ~pub2.ok THEN 0
       ELSE broadcast_trial(c, msgs, pub1.pt, pub2.pt).tried

\* mutant: the bail-out is never taken
no_decryption_never(sym_key) == FALSE

\* if not sym_key: no list entry decrypted
no_decryption(sym_key) == ~sym_key.ok

\* mutant: the claimed identity is not compared with the header
authenticated_always(entry, pub1) == TRUE

\* self.pki[name] == pub1, for an entry that is a single point
authenticated(entry, pub1) == pt_eq(entry.pub1, pub1)

\* the outcome of broadcast_decrypt by client c on the envelope msgs
broadcast_decrypt_outcome(c, msgs) ==
    LET pub1 == from_binary(msgs.pub1)
        pub2 == from_binary(msgs.pub2)
    IN  IF ~pub1.ok \/ ~pub2.ok THEN Raised("AssertionError")
        ELSE
        LET sym_key == broadcast_trial(c, msgs, pub1.pt, pub2.pt)
        IN  IF no_decryption(sym_key) THEN Raised("Exception")
            ELSE
            LET plaintext == quick_gcm_dec(sym_key.plain, msgs.iv,
                                           msgs.inner.c, msgs.inner.t)
                inner == decode(plaintext.plain)
            IN  IF ~plaintext.ok THEN Raised("TypeError")
                ELSE IF ~inner.ok THEN Raised("DecodeError")
                ELSE IF Len(inner.fields) # 2 THEN Raised("ValueError")
                ELSE
                LET xname == inner.fields[1]
                    sig_key == from_binary(inner.fields[2])
                IN  IF ~sig_key.ok THEN Raised("AssertionError")
                    ELSE IF xname \notin DOMAIN pki[c] THEN Raised("KeyError")
                    ELSE IF pki[c][xname].pair THEN Raised("AssertionError")
                    ELSE IF authenticated(pki[c][xname], pub1.pt)
                        THEN Outcome("return", xname, <<>>, sig_key.pt)
                    ELSE Outcome("None", <<>>, <<>>, infinite)

\* KulanClient.broadcast_decrypt(msgs): a returned (name, sig_key) goes to
\* the caller, recorded with the first header point of the envelope
broadcast_decrypt(c, msgs) ==
    /\ msgs.kind = "intro"
    /\ LET out == broadcast_decrypt_outcome(c, msgs)
       IN /\ last' = [op |-> "broadcast_decrypt", client |-> c, input |-> msgs,
                      out |-> out, tried |-> broadcast_tried(c, msgs)]
          /\ introduced' =
                IF out.status = "return"
                THEN [introduced EXCEPT
                        ![c] = @ \cup {[pub1 |-> msgs.pub1, name |-> out.name,
                                        key |-> out.key]}]
                ELSE introduced
    /\ UNCHANGED <<clientVars, wire, dh>>

(***************************************************************************)
(* Two clients and their directories.  A directory holds, for some of the  *)
(* names, the registered pair (pub1, pub2) or the registered point pub1    *)
(* alone.                                                                  *)
(***************************************************************************)
Directory(shape) ==
    [n \in DOMAIN shape |->
        IF shape[n] THEN PairEntry(RegPoint(n), RegPoint(n))
                    ELSE PointEntry(RegPoint(n))]

Directories ==
    { Directory(shape) : shape \in UNION { [D -> BOOLEAN] : D \in SUBSET Names } }

\* the first client holds the name "me" and the scalars registered for it;
\* the second takes any name and any scalars
IntroInit ==
    /\ \E rs1 \in EphScalars, d1 \in Directories,
          nm \in Names, x \in PrivScalars, re \in EphScalars,
          rs2 \in EphScalars, d2 \in Directories :
          Constructed(<< KulanClient(Me, RegScalar(Me), d1, rs1, RegScalar(Me)),
                         KulanClient(nm, x, d2, rs2, re) >>)
    /\ wire = NoMessage
    /\ last = NoCall
    /\ dh = [test |-> "none"]
    /\ introduced = [c \in Clients |-> {}]

BroadcastEncrypt ==
    \E c \in Clients, sym_key \in SymKeys, iv \in Ivs :
        \E ord \in Orders(DOMAIN pki[c]) : broadcast_encrypt(c, sym_key, iv, ord)

BroadcastDecrypt ==
    \E c \in Clients : wire.kind = "intro" /\ broadcast_decrypt(c, wire)

IntroNext == BroadcastEncrypt \/ BroadcastDecrypt

SpecIntro == IntroInit /\ [][IntroNext]_vars

(***************************************************************************)
(* A session of two clients over both layers: the first client's directory *)
(* holds the second with its pair of points, the second client's directory *)
(* holds the first with its long-term point, as in test_broad; the keys of *)
(* the channel are appended to each client's list in the order the group   *)
(* issues them, and the messages handed to a client are those on the wire. *)
(***************************************************************************)
SessionInit ==
    /\ \E n1 \in Names, n2 \in Names, rs1 \in EphScalars, rs2 \in EphScalars :
          /\ n1 # n2
          /\ Constructed(<<
                KulanClient(n1, RegScalar(n1),
                            Single(n2, PairEntry(RegPoint(n2), RegPoint(n2))),
                            rs1, RegScalar(n1)),
                KulanClient(n2, RegScalar(n2),
                            Single(n1, PointEntry(RegPoint(n1))),
                            rs2, RegScalar(n2)) >>)
    /\ wire = NoMessage
    /\ last = NoCall
    /\ dh = [test |-> "none"]
    /\ introduced = [c \in Clients |-> {}]

\* client.Ks += [key] with the next key of the channel, the keys being
\* <<1>>, <<2>>, ... in the order of their issue
EstablishKey ==
    \E c \in Clients :
        /\ Len(Ks[c]) < MaxChanKey
        /\ add_key(c, <<Len(Ks[c]) + 1>>)

\* a client is handed the steady message on the wire
DeliverSteady ==
    \E c \in Clients : wire.kind = "steady" /\ steady_decrypt(c, wire)

Next ==
    \/ EstablishKey
    \/ BroadcastEncrypt
    \/ BroadcastDecrypt
    \/ SteadyEncrypt
    \/ DeliverSteady

Spec == SessionInit /\ [][Next]_vars

(***************************************************************************)
(* The failure categories of the protocol, as the outcomes of the code.    *)
(***************************************************************************)
\* the call returned a result tuple
Returned(out) == out.status = "return"

\* NoMatchingRecipient: raise Exception("No decryption")
NoMatchingRecipient(out) == out = Raised("Exception")

\* AuthenticationFailure: None is returned, or the lookup of the claimed
\* name raises KeyError
AuthenticationFailure(out) ==
    out = Outcome("None", <<>>, <<>>, infinite) \/ out = Raised("KeyError")

\* DecryptionFailure: the tag did not verify and the call raised on the
\* absent plaintext
DecryptionFailure(out) == out = Raised("TypeError")

\* the product of two scalars times the generator
Prod(x, y) == rmul((x * y) % order, generator)

(***************************************************************************)
(* C1: for all private scalars a, b, p, q in [1, order-1], the three-party *)
(* derivation of the sender (a, b, P, Q) and of the receiver (A, B, p, q)  *)
(* agree, and term by term: a.Q with q.A, b.P with p.B, b.Q with q.B, in   *)
(* this order.                                                             *)
(***************************************************************************)
C1_3DH_Agree ==
    dh.test = "3DH" =>
        LET a == dh.p1.x  b == dh.p2.x  p == dh.p3.x  q == dh.p4.x
        IN /\ dh.k1 = dh.k2
           /\ dh.t1 = dh.t2
           /\ dh.t1 = << export(Prod(a, q)), export(Prod(b, p)), export(Prod(b, q)) >>

\* a three-party test whose three hashed terms are pairwise different
C1_Witness ==
    /\ dh.test = "3DH"
    /\ dh.k1 = dh.k2
    /\ Cardinality({dh.t1[1], dh.t1[2], dh.t1[3]}) = 3

(***************************************************************************)
(* C2: for all private scalars a, p, q in [1, order-1], the two-party      *)
(* derivation of the sender (a, P, Q) and of the receiver (a.G, p, q)      *)
(* agree.                                                                  *)
(***************************************************************************)
C2_2DH_Agree ==
    dh.test = "2DH" =>
        LET a == dh.p1.x  p == dh.p3.x  q == dh.p4.x
        IN /\ dh.k1 = dh.k2
           /\ dh.t1 = << export(Prod(a, p)), export(Prod(a, q)) >>
           /\ dh.t2 = dh.t1

\* a two-party test whose two hashed terms differ
C2_Witness ==
    /\ dh.test = "2DH"
    /\ dh.k1 = dh.k2
    /\ dh.t1[1] # dh.t1[2]

(***************************************************************************)
(* C3: steady-channel round trip.  For every client, whatever its name,    *)
(* every plaintext (the empty one included) and every non-empty channel    *)
(* key list, the client's steady_decrypt of its own steady_encrypt(m)      *)
(* returns (its own name, m).                                              *)
(***************************************************************************)
\* the message client c's steady_encrypt(m) produces with the IV iv
OwnMessage(c, m, iv) ==
    steady_message(name[c], priv_sign[c], LastKey(c), LastKey(c), m, iv)

C3_SteadyRoundTrip ==
    \A c \in Clients, m \in Plaintexts, iv \in Ivs :
        ( /\ last.op = "steady_decrypt"
          /\ last.client = c
          /\ Len(Ks[c]) > 0
          /\ wire = OwnMessage(c, m, iv)
          /\ last.input = wire )
        => last.out = Outcome("return", name[c], m, infinite)

(***************************************************************************)
(* C4: introduction round trip.  A receiver whose (priv, priv_enc) match   *)
(* the (pub1, pub2) of one entry of the sender's directory of N >= 1       *)
(* recipients, and whose own directory registers the sender's name with    *)
(* the sender's long-term public point, obtains from broadcast_decrypt of  *)
(* the sender's envelope exactly (sender name, sender signing public key). *)
(***************************************************************************)
\* the envelope msgs is one client s's broadcast_encrypt produces
EnvelopeOf(s, msgs) ==
    /\ \A n \in DOMAIN pki[s] : pki[s][n].pair
    /\ \E k \in SymKeys, iv \in Ivs : \E ord \in Orders(DOMAIN pki[s]) :
          msgs = broadcast_message(s, k, iv, ord)

\* the directory of s holds an entry with the key material of r
Recipient(s, r) ==
    \E n \in DOMAIN pki[s] :
        /\ pki[s][n].pair
        /\ pki[s][n].pub1 = pub[r]
        /\ pki[s][n].pub2 = pub_enc[r]

\* the directory of r registers the name of s with the point pub[s]
RegistersPoint(r, s) ==
    /\ name[s] \in DOMAIN pki[r]
    /\ pki[r][name[s]] = PointEntry(pub[s])

C4_IntroRoundTrip ==
    \A s \in Clients, r \in Clients :
        ( /\ last.op = "broadcast_decrypt"
          /\ last.client = r
          /\ EnvelopeOf(s, last.input)
          /\ Recipient(s, r)
          /\ RegistersPoint(r, s) )
        => last.out = Outcome("return", name[s], <<>>, pub_sign[s])

\* a round trip in which the receiver's entry is the second of two and the
\* first does not decrypt, and the two clients' signing keys differ
C4_Witness ==
    \E s \in Clients, r \in Clients :
        /\ last.op = "broadcast_decrypt"
        /\ last.client = r
        /\ EnvelopeOf(s, last.input)
        /\ Recipient(s, r)
        /\ RegistersPoint(r, s)
        /\ Returned(last.out)
        /\ Len(last.input.list) = 2
        /\ last.tried = 2
        /\ pub_sign[s] # pub_sign[r]

(***************************************************************************)
(* C5: a receiver whose (priv, priv_enc) match no entry of the sender's    *)
(* directory (either scalar differing is enough) gets NoMatchingRecipient  *)
(* from broadcast_decrypt on that envelope: every trial decryption is      *)
(* attempted and fails, and no (name, key) result is returned.             *)
(***************************************************************************)
C5_NoMatchingRecipient ==
    \A s \in Clients, r \in Clients :
        ( /\ last.op = "broadcast_decrypt"
          /\ last.client = r
          /\ EnvelopeOf(s, last.input)
          /\ ~Recipient(s, r) )
        => /\ NoMatchingRecipient(last.out)
           /\ last.tried = Len(last.input.list)
           /\ ~Returned(last.out)

\* a failed decryption of an envelope with two entries, one registering
\* the receiver's priv with another priv_enc, the other the receiver's
\* priv_enc with another priv
C5_Witness ==
    \E s \in Clients, r \in Clients :
        /\ last.op = "broadcast_decrypt"
        /\ last.client = r
        /\ EnvelopeOf(s, last.input)
        /\ ~Recipient(s, r)
        /\ \E n \in DOMAIN pki[s] :
              pki[s][n].pub1 = pub[r] /\ pki[s][n].pub2 # pub_enc[r]
        /\ \E n \in DOMAIN pki[s] :
              pki[s][n].pub1 # pub[r] /\ pki[s][n].pub2 = pub_enc[r]
        /\ NoMatchingRecipient(last.out)
        /\ last.tried = 2

(***************************************************************************)
(* C6: identity spoofing rejection.  When an introduction envelope         *)
(* decrypts but its inner payload claims a name whose public key in the    *)
(* receiver's directory differs from the first public point of the header, *)
(* or a name that is not in the directory, broadcast_decrypt ends in       *)
(* AuthenticationFailure and never returns the claimed (name, key).        *)
(***************************************************************************)
\* the receiver's directory does not hold the sender's point for its name
Spoofed(r, s) ==
    \/ name[s] \notin DOMAIN pki[r]
    \/ pki[r][name[s]].pub1 # pub[s]

C7_TamperRejected ==
    \A c \in Clients :
        ( /\ last.op = "steady_decrypt"
          /\ last.client = c
          /\ wire.kind = "steady"
          /\ Len(Ks[c]) > 0
          /\ wire.c.k = LastKey(c)
          /\ last.input \in Tampered(wire) )
        => /\ DecryptionFailure(last.out)
           /\ ~Returned(last.out)
           /\ last.out.plain = <<>>

\* a message the client named "me" encrypted under its last key is
\* rejected once its tag is changed
C7_Witness ==
    \E c \in Clients :
        /\ last.op = "steady_decrypt"
        /\ last.client = c
        /\ wire.kind = "steady"
        /\ Len(Ks[c]) > 0
        /\ name[c] = Me
        /\ \E m \in Plaintexts, iv \in Ivs : wire = OwnMessage(c, m, iv)
        /\ last.input = [wire EXCEPT !.t.e = 1]
        /\ DecryptionFailure(last.out)

(***************************************************************************)
(* C8: authentication binding.  An inner message whose signature was made  *)
(* over H(K' || m) for a channel key K' other than the receiver's last key *)
(* K, but which is encrypted under K, is rejected by steady_decrypt with   *)
(* AuthenticationFailure; m is not returned.                               *)
(***************************************************************************)
C8_BindingRejected ==
    \A c \in Clients, nm \in Names, sk \in EphScalars, K1 \in ChannelKeys,
       m \in Plaintexts, iv \in Ivs :
        ( /\ last.op = "steady_decrypt"
          /\ last.client = c
          /\ Len(Ks[c]) > 0
          /\ K1 # LastKey(c)
          /\ last.input = steady_message(nm, sk, K1, LastKey(c), m, iv) )
        => /\ AuthenticationFailure(last.out)
           /\ ~Returned(last.out)
           /\ last.out.plain = <<>>

\* the client's own name and signing scalar, a signature over another
\* channel key: None is returned
C8_Witness ==
    \E c \in Clients, K1 \in ChannelKeys, m \in Plaintexts, iv \in Ivs :
        /\ last.op = "steady_decrypt"
        /\ last.client = c
        /\ Len(Ks[c]) > 0
        /\ name[c] = Me
        /\ K1 # LastKey(c)
        /\ m # <<>>
        /\ last.input = steady_message(Me, priv_sign[c], K1, LastKey(c), m, iv)
        /\ last.out.status = "None"

(***************************************************************************)
(* C9: steady_decrypt returns (senderName, plaintext) only if the          *)
(* signature verifies under the signing public key CurrentSignerDirectory  *)
(* holds for senderName; a failed verification or a senderName absent from *)
(* CurrentSignerDirectory yields an AuthenticationFailure, distinct from   *)
(* the DecryptionFailure outcome, and no plaintext.                        *)
(***************************************************************************)
\* the inner message of a steady-channel message that decrypted
InnerOf(msg) == decode(msg.c.p).fields

\* the signature of the inner message verifies under the key that
\* current_dict of c holds for the name of the inner message
Verifies(c, inner) ==
    /\ inner[1] \in DOMAIN current_dict[c]
    /\ do_ecdsa_verify(current_dict[c][inner[1]],
                       [r |-> inner[3], s |-> inner[4]],
                       sha1(LastKey(c) \o inner[2]))

C9_OnlyVerifiedPlaintext ==
    \A c \in Clients :
        ( last.op = "steady_decrypt" /\ last.client = c /\ Len(Ks[c]) > 0 )
        => LET msg == last.input
               opened == msg.t = gcm_tag(LastKey(c), msg.iv, msg.c)
               inner == InnerOf(msg)
           IN /\ Returned(last.out) =>
                    /\ opened
                    /\ Len(inner) = 4
                    /\ Verifies(c, inner)
                    /\ last.out = Outcome("return", inner[1], inner[2], infinite)
              /\ (opened /\ Len(inner) = 4 /\ ~Verifies(c, inner)) =>
                    /\ AuthenticationFailure(last.out)
                    /\ ~DecryptionFailure(last.out)
                    /\ last.out.plain = <<>>
              /\ ~opened => DecryptionFailure(last.out) /\ ~AuthenticationFailure(last.out)

\* a message under the receiver's key, in the receiver's name, signed over
\* the right digest with another signing scalar: None is returned
C9_Witness ==
    \E c \in Clients, sk \in EphScalars, m \in Plaintexts, iv \in Ivs :
        /\ last.op = "steady_decrypt"
        /\ last.client = c
        /\ Len(Ks[c]) > 0
        /\ sk # priv_sign[c]
        /\ last.input = steady_message(Me, sk, LastKey(c), LastKey(c), m, iv)
        /\ last.out.status = "None"

(***************************************************************************)
(* C10: after a broadcast_decrypt that succeeds with (name, signing public *)
(* key), the receiving client's CurrentSignerDirectory maps name to that   *)
(* key; entries of CurrentSignerDirectory other than the client's own are  *)
(* added only by such successful introduction decryptions.                 *)
(***************************************************************************)
\* the last call was a successful broadcast_decrypt and the signer
\* directory of its client holds what it returned
Introduced ==
    ( last.op = "broadcast_decrypt" /\ Returned(last.out) )
    => /\ last.out.name \in DOMAIN current_dict[last.client]
       /\ current_dict[last.client][last.out.name] = last.out.key

\* a step adds entries to a signer directory only by a successful
\* broadcast_decrypt of that client, for the name it returns
OnlyIntroduced ==
    \A c \in Clients : \A n \in DOMAIN current_dict'[c] :
        ( n \notin DOMAIN current_dict[c] \/ current_dict'[c][n] # current_dict[c][n] )
        => /\ last'.op = "broadcast_decrypt"
           /\ last'.client = c
           /\ Returned(last'.out)
           /\ last'.out.name = n

C10_PopulatedByIntroduction == [][Introduced' /\ OnlyIntroduced]_vars

(***************************************************************************)
(* C11: in every reachable state, every client's current_dict holds the    *)
(* client's own name, the name its messages transmit, and maps it to the   *)
(* client's own signing public key pub_sign = priv_sign * G.               *)
(***************************************************************************)
C11_OwnNameInSignerDirectory ==
    \A c \in Clients :
       /\ pub_sign[c] = rmul(priv_sign[c], generator)
       /\ name[c] \in DOMAIN current_dict[c]
       /\ current_dict[c][name[c]] = pub_sign[c]

(***************************************************************************)
(* C12: empty recipient directory.  broadcast_encrypt of a client whose    *)
(* directory is empty returns a well-formed envelope (the header holds the *)
(* client's two public points, the inner ciphertext opens under its key to *)
(* the client's name and signing key) whose per-recipient list is empty,   *)
(* and broadcast_decrypt of that envelope by any client raises "No         *)
(* decryption" without having tried an entry.                              *)
(***************************************************************************)
C12_EmptyDirectory ==
    /\ \A s \in Clients :
          ( /\ last.op = "broadcast_encrypt"
            /\ last.client = s
            /\ DOMAIN pki[s] = {} )
          => /\ Returned(last.out)
             /\ wire.kind = "intro"
             /\ wire.list = <<>>
             /\ from_binary(wire.pub1) = [ok |-> TRUE, pt |-> pub[s]]
             /\ from_binary(wire.pub2) = [ok |-> TRUE, pt |-> pub_enc[s]]
             /\ quick_gcm_dec(wire.inner.c.k, wire.iv, wire.inner.c, wire.inner.t)
                  = [ok |-> TRUE,
                     plain |-> encode(<<name[s], export(pub_sign[s])>>)]
    /\ \A s \in Clients, r \in Clients :
          ( /\ last.op = "broadcast_decrypt"
            /\ last.client = r
            /\ DOMAIN pki[s] = {}
            /\ EnvelopeOf(s, last.input) )
          => /\ last.input.list = <<>>
             /\ NoMatchingRecipient(last.out)
             /\ last.tried = 0

\* the envelope of a client with an empty directory, handed to the other
\* client, whose own directory is not empty
C12_Witness ==
    \E s \in Clients, r \in Clients :
        /\ s # r
        /\ last.op = "broadcast_decrypt"
        /\ last.client = r
        /\ DOMAIN pki[s] = {}
        /\ DOMAIN pki[r] # {}
        /\ EnvelopeOf(s, last.input)
        /\ last.input.list = <<>>
        /\ NoMatchingRecipient(last.out)

(***************************************************************************)
(* C13: a steady_encrypt or steady_decrypt call made while the client's Ks *)
(* is empty ends in AssertionError, puts nothing on the wire (nothing was  *)
(* signed, encrypted or decrypted) and leaves every field of every client  *)
(* as it was.                                                              *)
(***************************************************************************)
C13_Step ==
    \A c \in Clients :
        ( /\ last'.op \in {"steady_encrypt", "steady_decrypt"}
          /\ last'.client = c
          /\ Len(Ks[c]) = 0 )
        => /\ last'.out = Raised("AssertionError")
           /\ last'.out.plain = <<>>
           /\ wire' = wire
           /\ clientVars' = clientVars

C13_EmptyKeyList == [][C13_Step]_vars

\* a client without a channel key was handed a steady message and raised
C13_Witness ==
    /\ last.op = "steady_decrypt"
    /\ Len(Ks[last.client]) = 0
    /\ last.input.kind = "steady"
    /\ last.input.c.k \in ChannelKeys
    /\ last.out = Raised("AssertionError")

(***************************************************************************)
(* C14: point encoding round trip.  For every point P of the group, the    *)
(* generator and the point at infinity included, decoding the export of P  *)
(* succeeds and gives a point equal to P; the same holds for the points    *)
(* the group operations produce.                                           *)
(***************************************************************************)
C14_ExportRoundTrip ==
    /\ dh.test = "ec_io" =>
          /\ dh.bin = export(dh.P)
          /\ dh.back.ok
          /\ pt_eq(dh.back.pt, dh.P)
          /\ dh.back.pt = dh.P
          /\ (dh.P = infinite <=> Len(dh.bin) = 1)
    /\ dh.test = "ec_arithmetic" =>
          \A R \in {dh.sum, dh.twice, dh.minus} :
              /\ check_point(R)
              /\ from_binary(export(R)) = [ok |-> TRUE, pt |-> R]

\* the round trip of a point whose negation has the same x and the other
\* parity of y
C14_Witness ==
    /\ dh.test = "ec_io"
    /\ ~dh.P.inf
    /\ dh.P.y % 2 = 1
    /\ dh.bin = <<3, dh.P.x>>
    /\ dh.back = [ok |-> TRUE, pt |-> dh.P]

(***************************************************************************)
(* C15: sender authentication accepts on the first component.  When the    *)
(* receiver's directory holds, for the name the envelope carries, a pair   *)
(* (pub1', pub2') whose first component equals the first public point of   *)
(* the envelope header, broadcast_decrypt returns the name and the signing *)
(* public key of the sender.                                               *)
(***************************************************************************)
\* the directory of r registers the name of s with a pair whose first
\* component is pub[s]
RegistersPair(r, s) ==
    /\ name[s] \in DOMAIN pki[r]
    /\ pki[r][name[s]].pair
    /\ pki[r][name[s]].pub1 = pub[s]

C15_AcceptsOnFirstComponent ==
    \A s \in Clients, r \in Clients :
        ( /\ last.op = "broadcast_decrypt"
          /\ last.client = r
          /\ EnvelopeOf(s, last.input)
          /\ Recipient(s, r)
          /\ RegistersPair(r, s) )
        => last.out = Outcome("return", name[s], <<>>, pub_sign[s])

(***************************************************************************)
(* C16: trial decryption is independent of list position.  For every       *)
(* permutation of the per-recipient list of an envelope, broadcast_decrypt *)
(* by a client the envelope was made for gives the same result; the        *)
(* entries before the first one that opens under the receiver's key are    *)
(* tried and skipped, and no entry after it is tried.                      *)
(***************************************************************************)
\* the envelope msgs with its per-recipient list reordered by perm
Permuted(msgs, perm) ==
    [msgs EXCEPT !.list = [i \in DOMAIN perm |-> msgs.list[perm[i]]]]

\* the entry opens under the key client r derives from the header of msgs
OpensFor(r, msgs, entry) ==
    LET K == derive_3DH_receiver(from_binary(msgs.pub1).pt,
                                 from_binary(msgs.pub2).pt,
                                 priv[r], priv_enc[r])
    IN entry.t = gcm_tag(Trunc16(K), msgs.iv, entry.c)

C16_PositionIndependent ==
    \A s \in Clients, r \in Clients :
        ( /\ last.op = "broadcast_decrypt"
          /\ last.client = r
          /\ EnvelopeOf(s, last.input)
          /\ Recipient(s, r) )
        => LET msgs == last.input
           IN /\ \A perm \in Orders(DOMAIN msgs.list) :
                    broadcast_decrypt_outcome(r, Permuted(msgs, perm)) = last.out
              /\ ~NoMatchingRecipient(last.out)
              /\ last.tried \in DOMAIN msgs.list
              /\ OpensFor(r, msgs, msgs.list[last.tried])
              /\ \A i \in 1..(last.tried - 1) : ~OpensFor(r, msgs, msgs.list[i])

\* the receiver's entry is the first of two: the search stops there, and
\* with the list reversed it skips one entry and returns the same result
C16_Witness ==
    \E s \in Clients, r \in Clients :
        /\ last.op = "broadcast_decrypt"
        /\ last.client = r
        /\ EnvelopeOf(s, last.input)
        /\ Recipient(s, r)
        /\ Len(last.input.list) = 2
        /\ last.tried = 1
        /\ ~OpensFor(r, last.input, last.input.list[2])
        /\ broadcast_tried(r, Permuted(last.input, <<2, 1>>)) = 2
        /\ Returned(last.out)

(***************************************************************************)
(* C17: only the last element of Ks is used.  steady_encrypt signs over    *)
(* and encrypts under the key at the end of the list at the time of the    *)
(* call, and steady_decrypt of a message encrypted under any other key,    *)
(* an earlier key of the list included, ends in a decryption failure: a    *)
(* message encrypted under K cannot be decrypted by a client once another  *)
(* key has been appended to its list.                                      *)
(***************************************************************************)
\* the key at the end of the list of client c
KeyAtEnd(c) == Ks[c][Len(Ks[c])]

C17_OnlyLastKey ==
    \A c \in Clients :
        /\ ( /\ last.op = "steady_encrypt"
             /\ last.client = c
             /\ Returned(last.out) )
           => /\ wire.c.k = KeyAtEnd(c)
              /\ wire.t = gcm_tag(KeyAtEnd(c), wire.iv, wire.c)
              /\ InnerOf(wire)[4] = sha1(KeyAtEnd(c) \o last.out.plain)
        /\ ( /\ last.op = "steady_decrypt"
             /\ last.client = c
             /\ Len(Ks[c]) > 0
             /\ last.input.c.k # KeyAtEnd(c) )
           => /\ DecryptionFailure(last.out)
              /\ ~Returned(last.out)

\* the client named "me" encrypted under its first key, a second key was
\* appended to its list, and it fails to decrypt its own message
C17_Witness ==
    \E c \in Clients :
        /\ last.op = "steady_decrypt"
        /\ last.client = c
        /\ name[c] = Me
        /\ Len(Ks[c]) = 2
        /\ \E m \in Plaintexts, iv \in Ivs :
              wire = steady_message(Me, priv_sign[c], Ks[c][1], Ks[c][1], m, iv)
        /\ last.input = wire
        /\ DecryptionFailure(last.out)

(***************************************************************************)
(* C18: end-to-end session.  If client b has successfully decrypted the    *)
(* introduction envelope of client a, and a and b hold the same last       *)
(* channel key, then steady_decrypt by b of the message steady_encrypt(m)  *)
(* of a returns (name of a, m), the signature having been verified under   *)
(* the signing key the introduction delivered for the name of a.           *)
(***************************************************************************)
\* a broadcast_decrypt of b returned the name and signing key of a for an
\* envelope whose header names the long-term point of a
HasIntroduction(b, a) ==
    [pub1 |-> export(pub[a]), name |-> name[a], key |-> pub_sign[a]]
        \in introduced[b]

C18_EndToEndSession ==
    \A a \in Clients, b \in Clients, m \in Plaintexts, iv \in Ivs :
        ( /\ last.op = "steady_decrypt"
          /\ last.client = b
          /\ HasIntroduction(b, a)
          /\ Len(Ks[a]) > 0
          /\ Len(Ks[b]) > 0
          /\ KeyAtEnd(a) = KeyAtEnd(b)
          /\ wire = OwnMessage(a, m, iv)
          /\ last.input = wire )
        => /\ last.out = Outcome("return", name[a], m, infinite)
           /\ name[a] \in DOMAIN current_dict[b]
           /\ current_dict[b][name[a]] = pub_sign[a]

(***************************************************************************)
(* C19: no protocol operation (broadcast_encrypt, broadcast_decrypt,       *)
(* steady_encrypt, steady_decrypt), whether it returns or raises, changes  *)
(* a client's name, long-term key pair, ephemeral key pairs, directory or  *)
(* channel key list, and in the state it leaves pub = priv * G, pub_sign = *)
(* priv_sign * G and pub_enc = priv_enc * G hold for every client.         *)
(***************************************************************************)
ProtocolOps ==
    {"broadcast_encrypt", "broadcast_decrypt", "steady_encrypt", "steady_decrypt"}

C19_KeyPairs ==
    \A c \in Clients :
        /\ pub[c] = rmul(priv[c], generator)
        /\ pub_sign[c] = rmul(priv_sign[c], generator)
        /\ pub_enc[c] = rmul(priv_enc[c], generator)

C19_Step ==
    last'.op \in ProtocolOps
    => /\ UNCHANGED <<name, priv, pub, priv_sign, pub_sign, priv_enc, pub_enc,
                      pki, Ks>>
       /\ C19_KeyPairs'

C19_IdentityFrame == [][C19_Step]_vars

\* after an introduction was accepted and two keys were established, a
\* steady message was sent and its decryption failed
C19_Witness ==
    \E c \in Clients :
        /\ last.op = "steady_decrypt"
        /\ last.client = c
        /\ introduced[c] # {}
        /\ Len(Ks[c]) = 2
        /\ ~Returned(last.out)
        /\ C19_KeyPairs

(***************************************************************************)
(* C20: broadcast_encrypt produces an envelope for every directory whose   *)
(* entries are pairs of points, except that the entry under the client's   *)
(* own name may be a single point: the call returns, and every entry that  *)
(* is a pair has its per-recipient ciphertext in the list of the envelope. *)
(***************************************************************************)
\* every entry of the directory of c is a pair, or is the entry of c itself
AllowedDirectory(c) ==
    \A n \in DOMAIN pki[c] : pki[c][n].pair \/ n = name[c]

C20_EncryptsAllowedDirectory ==
    \A c \in Clients :
        ( /\ last.op = "broadcast_encrypt"
          /\ last.client = c
          /\ AllowedDirectory(c) )
        => /\ Returned(last.out)
           /\ wire.kind = "intro"
           /\ \A n \in DOMAIN pki[c] :
                 pki[c][n].pair =>
                    \E i \in DOMAIN wire.list :
                        wire.list[i].c.k =
                            Trunc16(derive_3DH_sender(priv[c], priv_enc[c],
                                                      pki[c][n].pub1,
                                                      pki[c][n].pub2))

====
